---------------------------- MODULE Spec2Model ----------------------------
(***************************************************************************)
(* A model of bls_data_merge.py: four tab-delimited BLS OES tables are     *)
(* loaded, filtered, left-joined, pivoted to wide format, enriched with    *)
(* occupation names and exported.                                          *)
(*                                                                         *)
(* Representation.  A string is a sequence of pieces; a piece is one       *)
(* whitespace character, one sign or digit character, or an opaque run of  *)
(* other characters.  A cell is a record tagged "str", "num" or "NA".      *)
(* A DataFrame is [columns: sequence of column names, rows: sequence of    *)
(* functions from column name to cell]; a column name is a string.         *)
(***************************************************************************)
EXTENDS Integers, Sequences, FiniteSets, TLC

\* ----------------------------------------------------------------------
\* Strings and cells
\* ----------------------------------------------------------------------

\* The characters matched by \s and removed by str.strip().
Whitespace == {" ", "\t"}

RECURSIVE lstrip(_)
lstrip(s) == IF s # <<>> /\ Head(s) \in Whitespace THEN lstrip(Tail(s)) ELSE s

RECURSIVE rstrip(_)
rstrip(s) ==
    IF s # <<>> /\ s[Len(s)] \in Whitespace
    THEN rstrip(SubSeq(s, 1, Len(s) - 1))
    ELSE s

\* str.strip(): leading and trailing whitespace removed, nothing else changed.
strip(s) == rstrip(lstrip(s))

NA == [k |-> "NA"]
Str(s) == [k |-> "str", s |-> s]
Num(n) == [k |-> "num", n |-> n]

\* A string literal of the program, as a cell value and as a column name.
Lit(word) == Str(<<word>>)
Name(word) == <<word>>

isna(c) == c.k = "NA"

Range(f) == {f[i] : i \in DOMAIN f}

\* Series.isin(values): a missing cell is in no list of strings.
isin(c, values) == \E i \in DOMAIN values : c = Lit(values[i])

\* ----------------------------------------------------------------------
\* DataFrame operations
\* ----------------------------------------------------------------------

DataFrame(columns, rows) == [columns |-> columns, rows |-> rows]

\* `name in df.columns`; df[name] raises KeyError when this is false.
HasColumn(df, name) == \E i \in DOMAIN df.columns : df.columns[i] = name

HasColumns(df, names) == \A n \in names : HasColumn(df, n)

\* pd.read_csv(path, delimiter="\t", dtype=str): the header line gives the
\* column names as written in the file, each line one row of string cells.
read_csv(file) ==
    DataFrame(file.header,
              [i \in DOMAIN file.rows |->
                  [c \in Range(file.header) |->
                      LET j == CHOOSE j \in DOMAIN file.header : file.header[j] = c
                      IN  file.rows[i][j]]])

\* df.columns = df.columns.str.strip()
strip_columns(df) ==
    DataFrame([i \in DOMAIN df.columns |-> strip(df.columns[i])],
              [i \in DOMAIN df.rows |->
                  [c \in {strip(n) : n \in Range(df.columns)} |->
                      LET n == CHOOSE n \in Range(df.columns) : strip(n) = c
                      IN  df.rows[i][n]]])

\* df.drop(columns=cols, errors="ignore")
drop(df, cols) ==
    DataFrame(SelectSeq(df.columns, LAMBDA c : c \notin cols),
              [i \in DOMAIN df.rows |->
                  [c \in Range(df.columns) \ cols |-> df.rows[i][c]]])

\* df[[c1, c2, ...]]: the listed columns, in the listed order.
select(df, names) ==
    DataFrame(names,
              [i \in DOMAIN df.rows |-> [c \in Range(names) |-> df.rows[i][c]]])

RECURSIVE Flatten(_)
Flatten(ss) == IF ss = <<>> THEN <<>> ELSE Head(ss) \o Flatten(Tail(ss))

\* df[col]: the column as a Series, one cell per row.
column(df, col) == [i \in DOMAIN df.rows |-> df.rows[i][col]]

\* df[mask]: the rows whose entry in the boolean Series is true, in their order.
where(df, mask) ==
    DataFrame(df.columns,
              Flatten([i \in DOMAIN df.rows |->
                          IF mask[i] THEN <<df.rows[i]>> ELSE <<>>]))


\* The regular expression ^\s*-\s*$ : a lone dash, whitespace around it allowed.
matches_dash(s) == strip(s) = <<"-">>

\* df.replace(r"^\s*-\s*$", pd.NA, regex=True): every string cell of every
\* column that matches becomes missing.
replace_dash(df) ==
    DataFrame(df.columns,
              [i \in DOMAIN df.rows |->
                  [c \in Range(df.columns) |->
                      LET cell == df.rows[i][c]
                      IN  IF cell.k = "str" /\ matches_dash(cell.s) THEN NA ELSE cell]])

Digits == {"0", "1", "2", "3", "4", "5", "6", "7", "8", "9"}

DigitValue(d) ==
    CASE d = "0" -> 0 [] d = "1" -> 1 [] d = "2" -> 2 [] d = "3" -> 3 [] d = "4" -> 4
      [] d = "5" -> 5 [] d = "6" -> 6 [] d = "7" -> 7 [] d = "8" -> 8 [] d = "9" -> 9

RECURSIVE DecimalValue(_)
DecimalValue(s) ==
    IF s = <<>> THEN 0
    ELSE 10 * DecimalValue(SubSeq(s, 1, Len(s) - 1)) + DigitValue(s[Len(s)])

IsDecimal(s) == s # <<>> /\ \A i \in DOMAIN s : s[i] \in Digits

\* pd.to_numeric(text, errors="coerce") of one cell: surrounding whitespace is
\* skipped, an optional sign and a run of digits give the number, and any
\* other text (and a missing cell) gives NaN.
to_numeric_cell(cell) ==
    IF cell.k # "str" THEN cell
    ELSE LET t == strip(cell.s)
         IN  IF IsDecimal(t) THEN Num(DecimalValue(t))
             ELSE IF t # <<>> /\ Head(t) = "-" /\ IsDecimal(Tail(t))
                  THEN Num(0 - DecimalValue(Tail(t)))
             ELSE IF t # <<>> /\ Head(t) = "+" /\ IsDecimal(Tail(t))
                  THEN Num(DecimalValue(Tail(t)))
             ELSE NA

\* pd.to_numeric(series, errors="coerce")
to_numeric(series) == [i \in DOMAIN series |-> to_numeric_cell(series[i])]

\* df[col] = series, for a column the frame has.
assign(df, col, series) ==
    DataFrame(df.columns,
              [i \in DOMAIN df.rows |->
                  [c \in Range(df.columns) |->
                      IF c = col THEN series[i] ELSE df.rows[i][c]]])

\* Variant of fillna that leaves a missing cell missing.
fillna_nothing(series, fill) == series

\* Series.fillna(value)
fillna(series, fill) ==
    [i \in DOMAIN series |-> IF isna(series[i]) THEN fill ELSE series[i]]

\* Variant of merge_left that pairs every left row with every right row,
\* whatever their keys.
merge_cross(left, right, key) ==
    LET others == SelectSeq(right.columns, LAMBDA c : c # key)
        combine(l, r) ==
            [c \in Range(left.columns) \cup Range(others) |->
                IF c \in Range(left.columns) THEN l[c] ELSE r[c]]
        unmatched(l) ==
            [c \in Range(left.columns) \cup Range(others) |->
                IF c \in Range(left.columns) THEN l[c] ELSE NA]
        fan(l) == IF right.rows = <<>>
                  THEN <<unmatched(l)>>
                  ELSE [j \in DOMAIN right.rows |-> combine(l, right.rows[j])]
    IN  DataFrame(left.columns \o others,
                  Flatten([i \in DOMAIN left.rows |-> fan(left.rows[i])]))

\* pd.merge(left, right, on=key, how="left"), for frames that share no column
\* but the key: each left row, in the left order, is paired with every right
\* row of equal key, in the right order (missing keys match each other); a left
\* row with no partner is kept once, the right columns missing.
merge_left(left, right, key) ==
    LET others == SelectSeq(right.columns, LAMBDA c : c # key)
        combine(l, r) ==
            [c \in Range(left.columns) \cup Range(others) |->
                IF c \in Range(left.columns) THEN l[c] ELSE r[c]]
        unmatched(l) ==
            [c \in Range(left.columns) \cup Range(others) |->
                IF c \in Range(left.columns) THEN l[c] ELSE NA]
        partners(l) == SelectSeq(right.rows, LAMBDA r : r[key] = l[key])
        fan(l) == IF partners(l) = <<>>
                  THEN <<unmatched(l)>>
                  ELSE [j \in DOMAIN partners(l) |-> combine(l, partners(l)[j])]
    IN  DataFrame(left.columns \o others,
                  Flatten([i \in DOMAIN left.rows |-> fan(left.rows[i])]))

\* ----------------------------------------------------------------------
\* pivot_table
\* ----------------------------------------------------------------------

\* The order of Python's string comparison on the strings that occur as
\* group keys (area codes, labels, occupation codes).
Collation ==
    << "A1", "A2",
       "Annual 10th percentile wage", "Annual 25th percentile wage",
       "Annual 75th percentile wage", "Annual 90th percentile wage",
       "Annual median wage", "Hourly mean wage", "MISSING", "O1", "O2" >>

Rank(cell) == CHOOSE i \in DOMAIN Collation : Collation[i] = cell.s[1]

\* Tuples of key cells, compared as Python compares tuples of strings.
RECURSIVE KeyLess(_, _)
KeyLess(a, b) ==
    IF a = <<>> \/ b = <<>> THEN a = <<>> /\ b # <<>>
    ELSE IF Head(a) = Head(b) THEN KeyLess(Tail(a), Tail(b))
    ELSE Rank(Head(a)) < Rank(Head(b))

RECURSIVE Sorted(_)
Sorted(S) ==
    IF S = {} THEN <<>>
    ELSE LET m == CHOOSE x \in S : \A y \in S \ {x} : KeyLess(x, y)
         IN  <<m>> \o Sorted(S \ {m})

\* Variant of groupby_first that takes the value of the first row of the
\* group, missing or not.
groupby_head(group, values) == group[1][values]

\* GroupBy.first() on one group: the first value of the group that is not
\* missing, in row order; missing when the group holds no value.
groupby_first(group, values) ==
    LET present == SelectSeq(group, LAMBDA r : ~isna(r[values]))
    IN  IF present = <<>> THEN NA ELSE present[1][values]

\* agged.dropna(how="all") inside pivot_table (dropna=True is the default):
\* of the aggregated groups, those whose value is missing are removed.
dropna_all(agged) == {g \in DOMAIN agged : ~isna(agged[g])}

\* Variant of pivot_table with the unstack left out: one row per aggregated
\* (index..., columns) group instead of one row per index key.
pivot_table_long(df, index, columns, values) ==
    LET keys == index \o <<columns>>
        data == SelectSeq(df.rows,
                          LAMBDA r : \A i \in DOMAIN keys : ~isna(r[keys[i]]))
        keyOf(r) == [i \in DOMAIN keys |-> r[keys[i]]]
        group(g) == SelectSeq(data, LAMBDA r : keyOf(r) = g)
        agg(g) == groupby_first(group(g), values)
        agged == Sorted(dropna_all([g \in {keyOf(data[i]) : i \in DOMAIN data} |-> agg(g)]))
        labels == Sorted({<<agged[i][Len(keys)]>> : i \in DOMAIN agged})
        labelNames == [j \in DOMAIN labels |-> labels[j][1].s]
        position(c) == CHOOSE j \in DOMAIN index : index[j] = c
    IN  DataFrame(index \o labelNames,
                  [i \in DOMAIN agged |->
                      [c \in Range(index) \cup Range(labelNames) |->
                          IF c \in Range(index) THEN agged[i][position(c)]
                          ELSE IF agged[i][Len(keys)] = Str(c) THEN agg(agged[i])
                          ELSE NA]])

\* df.pivot_table(index=index, columns=columns, values=values,
\*                aggfunc="first").reset_index()
\* Rows with a missing key are left out of the grouping; each group of equal
\* (index..., columns) keys is aggregated; groups without a value are dropped;
\* the remaining groups are unstacked into one row per index key and one
\* column per label, both sorted; a cell without a group is missing.
pivot_table(df, index, columns, values) ==
    LET keys == index \o <<columns>>
        data == SelectSeq(df.rows,
                          LAMBDA r : \A i \in DOMAIN keys : ~isna(r[keys[i]]))
        keyOf(r) == [i \in DOMAIN keys |-> r[keys[i]]]
        group(g) == SelectSeq(data, LAMBDA r : keyOf(r) = g)
        agg(g) == groupby_first(group(g), values)
        agged == dropna_all([g \in {keyOf(data[i]) : i \in DOMAIN data} |-> agg(g)])
        rowKeys == Sorted({SubSeq(g, 1, Len(index)) : g \in agged})
        labels == Sorted({<<g[Len(keys)]>> : g \in agged})
        labelNames == [j \in DOMAIN labels |-> labels[j][1].s]
        position(c) == CHOOSE j \in DOMAIN index : index[j] = c
    IN  DataFrame(index \o labelNames,
                  [i \in DOMAIN rowKeys |->
                      [c \in Range(index) \cup Range(labelNames) |->
                          IF c \in Range(index) THEN rowKeys[i][position(c)]
                          ELSE LET g == rowKeys[i] \o <<Str(c)>>
                               IN  IF g \in agged THEN agg(g) ELSE NA]])

\* ----------------------------------------------------------------------
\* The stages of the script
\* ----------------------------------------------------------------------

drop_cols ==
    { Name("footnote_codes"), Name("begin_year"), Name("begin_period"),
      Name("end_period"), Name("seasonal"), Name("areatype_code"),
      Name("industry_code"), Name("state_code"), Name("sector_code"),
      Name("series_title") }

desired_datatypes ==
    << "Annual 10th percentile wage", "Annual 25th percentile wage",
       "Annual 75th percentile wage", "Annual 90th percentile wage",
       "Annual median wage" >>

desired_codes == << "11", "12", "13", "14", "15" >>

\* Section 1: rows with areatype_code == "M" and an allow-listed
\* datatype_code, then the unneeded columns dropped.
filter_series(df) ==
    LET area == where(df, [i \in DOMAIN df.rows |->
                              column(df, Name("areatype_code"))[i] = Lit("M")])
        wage == where(area, [i \in DOMAIN area.rows |->
                                isin(column(area, Name("datatype_code"))[i],
                                     desired_codes)])
    IN  drop(wage, drop_cols)

\* Variant of filter_datatype that keeps every row of the data-type table.
filter_datatype_all(df) == df

\* Section 2: rows whose datatype_name is one of the five wage measures.
filter_datatype(df) ==
    where(df, [i \in DOMAIN df.rows |->
                  isin(column(df, Name("datatype_name"))[i], desired_datatypes)])

\* Section 3.
process_occupation(df) == drop(df, {Name("selectable"), Name("display_level")})

\* Section 4: dash placeholders become missing, three columns are dropped and
\* the value column is converted to numbers.
process_current(df) ==
    LET kept == drop(replace_dash(df),
                     {Name("footnote_codes"), Name("year"), Name("period")})
    IN  assign(kept, Name("value"), to_numeric(column(kept, Name("value"))))

\* Section 5, second merge: the label is joined on, missing labels become
\* "MISSING", and series_id and datatype_code are dropped.
merge_datatype(merged, datatypes) ==
    LET joined == merge_left(merged, datatypes, Name("datatype_code"))
        filled == assign(joined, Name("datatype_name"),
                         fillna(column(joined, Name("datatype_name")),
                                Lit("MISSING")))
    IN  drop(filled, {Name("series_id"), Name("datatype_code")})

pivot_index == << Name("occupation_code"), Name("area_code") >>

occupation_columns ==
    << Name("occupation_code"), Name("occupation_name"),
       Name("occupation_description") >>

\* ----------------------------------------------------------------------
\* State
\* ----------------------------------------------------------------------

VARIABLES
    files,          \* the four input files under data/, never written
    pc,             \* the section of the script about to run
    error,          \* the exception that ended the run, "" when none
    series_df, datatype_df, occupation_df, current_df,
    merged_df, pivot_df, final_df,
    export_file     \* final_dataset.csv: <<>> until written, then <<contents>>

vars == << files, pc, error, series_df, datatype_df, occupation_df, current_df,
           merged_df, pivot_df, final_df, export_file >>

\* A name not yet bound by the script.
Unbound == DataFrame(<<>>, <<>>)

\* ----------------------------------------------------------------------
\* Input files
\* ----------------------------------------------------------------------

MaxSeries == 2      \* rows of data/oe.series
MaxObs == 2         \* rows of data/oe.data.0.Current
MaxLookup == 2      \* rows of data/oe.datatype and of data/oe.occupation

SeqsUpTo(S, n) == UNION {[1..m -> S] : m \in 0..n}

File(header, rows) == [header |-> header, rows |-> rows]

series_header ==
    << Name("series_id"), Name("areatype_code"), Name("occupation_code"),
       Name("datatype_code"), Name("area_code"), Name("footnote_codes") >>
current_header == << Name("series_id"), Name("value"), Name("footnote_codes") >>
datatype_header == << Name("datatype_code"), Name("datatype_name") >>
occupation_header ==
    << Name("occupation_code"), Name("occupation_name"),
       Name("occupation_description"), Name("selectable") >>

SeriesIds == << "S1", "S2", "S3", "S4" >>

\* <<areatype_code, occupation_code, datatype_code, area_code>> of a series.
SeriesKinds ==
    { <<"M", "O1", "13", "A1">>, <<"M", "O1", "14", "A1">>,
      <<"M", "O2", "13", "A1">>, <<"M", "O1", "13", "A2">> }

\* A field of a line as read_csv returns it: an empty field is missing.
Field(word) == IF word = "" THEN NA ELSE Lit(word)

\* The i-th series row has the i-th series id: series_id is a key of the file.
SeriesFile(kinds) ==
    File(series_header,
         [i \in DOMAIN kinds |->
             << Lit(SeriesIds[i]), Field(kinds[i][1]), Field(kinds[i][2]),
                Field(kinds[i][3]), Field(kinds[i][4]), NA >>])

\* The text of a value field.
Values == { <<"4", "5">>, <<" ", "5", "2">>, <<" ", " ", "-", " ">> }
MoreValues == Values \cup { <<"-">>, <<"0">>, <<"-", "3">>, <<"n/a">> }

CurrentFile(obs) ==
    File(current_header,
         [i \in DOMAIN obs |-> << Lit(obs[i][1]), Str(obs[i][2]), NA >>])

DatatypeRows ==
    { <<"13", "Annual median wage">>, <<"13", "Hourly mean wage">>,
      <<"13", "Annual 90th percentile wage">> }

DatatypeFile(rows) ==
    File(datatype_header,
         [i \in DOMAIN rows |-> << Lit(rows[i][1]), Lit(rows[i][2]) >>])

OccupationRows ==
    { <<"O1", "Nurse", "Cares for patients">>,
      <<"O2", "Welder", "Joins metal">>,
      <<"O1", "Nurse II", "Cares for more patients">> }

OccupationFile(rows) ==
    File(occupation_header,
         [i \in DOMAIN rows |->
             << Lit(rows[i][1]), Lit(rows[i][2]), Lit(rows[i][3]), Lit("T") >>])

Files(s, c, d, o) == [series |-> s, current |-> c, datatype |-> d, occupation |-> o]

DefaultSeries == SeriesFile(<< <<"M", "O1", "13", "A1">> >>)
DefaultCurrent ==
    CurrentFile(<< <<"S1", <<"4", "5">> >>, <<"S1", <<" ", "5", "2">> >> >>)
DefaultDatatype ==
    DatatypeFile(<< <<"13", "Annual median wage">>,
                    <<"14", "Annual 90th percentile wage">> >>)
DefaultOccupation == OccupationFile(<< <<"O1", "Nurse", "Cares for patients">> >>)

\* <<series_id, value text>> of an observation line.
PivotObservations ==
    ({"S1"} \X Values) \cup ({"S2"} \X {<<" ", "5", "2">>, <<" ", " ", "-", " ">>})

\* Inputs that vary the series and the observations.
PivotInputs(f) ==
    \E ks \in SeqsUpTo(SeriesKinds, MaxSeries),
       obs \in SeqsUpTo(PivotObservations, MaxObs) :
        f = Files(SeriesFile(ks), CurrentFile(obs), DefaultDatatype, DefaultOccupation)

\* Inputs that vary the text of the value field.
ValueInputs(f) ==
    \E obs \in SeqsUpTo({"S1"} \X MoreValues, MaxObs) :
        f = Files(DefaultSeries, CurrentFile(obs), DefaultDatatype, DefaultOccupation)

\* Inputs that vary the two lookup tables.
LookupInputs(f) ==
    \E ks \in { << <<"M", "O1", "13", "A1">> >>,
                 << <<"M", "O1", "D1", "A1">> >>,
                 << <<"M", "O1", "14", "A1">>, <<"M", "O2", "13", "A1">> >>,
                 << <<"M", "O1", "13", "">>, <<"M", "O2", "13", "A1">> >> },
       d \in SeqsUpTo(DatatypeRows, MaxLookup),
       o \in SeqsUpTo(OccupationRows, MaxLookup) :
        f = Files(SeriesFile(ks),
                  CurrentFile(<< <<"S1", <<"4", "5">> >>,
                                 <<"S2", <<" ", "5", "2">> >> >>),
                  DatatypeFile(d), OccupationFile(o))

RemoveAt(s, j) == SubSeq(s, 1, j - 1) \o SubSeq(s, j + 1, Len(s))

\* Three series, one observation each: two labels of one occupation and area,
\* and a second occupation.
SparseInputs ==
    { Files(SeriesFile(<< <<"M", "O1", "13", "A1">>, <<"M", "O1", "14", "A1">>,
                          <<"M", "O2", "13", "A1">> >>),
            CurrentFile([i \in 1..3 |-> <<SeriesIds[i], v[i]>>]),
            DefaultDatatype, DefaultOccupation) :
        v \in [1..3 -> Values] }

\* The one-series, one-observation inputs, with a data-type code on and off
\* the allow-list of line 29, and a series file with no areatype_code column.
ScenarioInputs ==
    { Files(s, CurrentFile(<< <<"S1", v>> >>), DatatypeFile(d), DefaultOccupation) :
        s \in { SeriesFile(<< <<"M", "O1", "D1", "A1">> >>),
                SeriesFile(<< <<"M", "O1", "13", "A1">> >>),
                SeriesFile(<< <<"S", "O1", "13", "A1">> >>),
                File(RemoveAt(series_header, 2),
                     << << Lit("S1"), Lit("O1"), Lit("D1"), Lit("A1"), NA >> >>) },
        d \in { <<>>, << <<"D1", "Annual median wage">> >>,
                << <<"13", "Annual median wage">> >> },
        v \in { <<"4", "5", "0", "0", "0">>, <<"-">> } }

\* The same header word in another letter case.
Cased(word) ==
    CASE word = "series_id" -> "Series_ID"
      [] word = "areatype_code" -> "AreaType_Code"
      [] word = "occupation_code" -> "Occupation_Code"
      [] word = "datatype_code" -> "Datatype_Code"
      [] word = "area_code" -> "Area_Code"
      [] word = "value" -> "VALUE"
      [] word = "datatype_name" -> "Datatype_Name"
      [] word = "occupation_name" -> "Occupation_Name"
      [] word = "occupation_description" -> "Occupation_Description"
      [] OTHER -> word

HeaderKinds == {"padded", "cased", "padded_cased", "absent"}

\* The file with the header of column j written another way, or with
\* column j left out of the file altogether.
VaryHeader(file, j, kind) ==
    LET word == file.header[j][1]
    IN  CASE kind = "padded" ->
               File([file.header EXCEPT ![j] = <<" ", word, " ", "\t">>], file.rows)
          [] kind = "cased" ->
               File([file.header EXCEPT ![j] = <<Cased(word)>>], file.rows)
          [] kind = "padded_cased" ->
               File([file.header EXCEPT ![j] = <<" ", Cased(word), " ">>], file.rows)
          [] kind = "absent" ->
               File(RemoveAt(file.header, j),
                    [i \in DOMAIN file.rows |-> RemoveAt(file.rows[i], j)])

DefaultFiles == Files(DefaultSeries, DefaultCurrent, DefaultDatatype, DefaultOccupation)

\* Inputs that vary one header of one file.
HeaderInputs ==
    { [DefaultFiles EXCEPT !.series = VaryHeader(@, j, kind)] :
        j \in 1..5, kind \in HeaderKinds }
    \cup { [DefaultFiles EXCEPT !.current = VaryHeader(@, j, kind)] :
        j \in 1..2, kind \in HeaderKinds }
    \cup { [DefaultFiles EXCEPT !.datatype = VaryHeader(@, j, kind)] :
        j \in 1..2, kind \in HeaderKinds }
    \cup { [DefaultFiles EXCEPT !.occupation = VaryHeader(@, j, kind)] :
        j \in 1..3, kind \in HeaderKinds }

Inputs(f) ==
    \/ PivotInputs(f)
    \/ ValueInputs(f)
    \/ LookupInputs(f)
    \/ f \in SparseInputs
    \/ f \in ScenarioInputs
    \/ f \in HeaderInputs

\* ----------------------------------------------------------------------
\* The script, one action per section
\* ----------------------------------------------------------------------

Init ==
    /\ Inputs(files)
    /\ pc = "series"
    /\ error = ""
    /\ series_df = Unbound
    /\ datatype_df = Unbound
    /\ occupation_df = Unbound
    /\ current_df = Unbound
    /\ merged_df = Unbound
    /\ pivot_df = Unbound
    /\ final_df = Unbound
    /\ export_file = <<>>

\* An uncaught KeyError ends the script where it is raised.
Raise(exception) ==
    /\ pc' = "aborted"
    /\ error' = exception

Goto(section) ==
    /\ pc' = section
    /\ error' = error

\* Lines 20-35.
LoadSeries ==
    /\ pc = "series"
    /\ LET df == strip_columns(read_csv(files.series))
       IN  IF HasColumns(df, {Name("areatype_code"), Name("datatype_code")})
           THEN series_df' = filter_series(df) /\ Goto("datatype")
           ELSE series_df' = df /\ Raise("KeyError")
    /\ UNCHANGED << files, datatype_df, occupation_df, current_df, merged_df,
                    pivot_df, final_df, export_file >>

\* Lines 40-53.
LoadDatatype ==
    /\ pc = "datatype"
    /\ LET df == strip_columns(read_csv(files.datatype))
       IN  IF HasColumn(df, Name("datatype_name"))
           THEN datatype_df' = filter_datatype(df) /\ Goto("occupation")
           ELSE datatype_df' = df /\ Raise("KeyError")
    /\ UNCHANGED << files, series_df, occupation_df, current_df, merged_df,
                    pivot_df, final_df, export_file >>

\* Lines 58-64.
LoadOccupation ==
    /\ pc = "occupation"
    /\ occupation_df' = process_occupation(strip_columns(read_csv(files.occupation)))
    /\ Goto("current")
    /\ UNCHANGED << files, series_df, datatype_df, current_df, merged_df,
                    pivot_df, final_df, export_file >>

\* Variant of LoadCurrent that converts the value column only when the file
\* has one, and goes on to the joins either way.
LoadCurrentLenient ==
    /\ pc = "current"
    /\ LET df == strip_columns(read_csv(files.current))
           cleaned == drop(replace_dash(df),
                           {Name("footnote_codes"), Name("year"), Name("period")})
       IN  current_df' = IF HasColumn(df, Name("value"))
                         THEN process_current(df)
                         ELSE cleaned
    /\ Goto("merge_current")
    /\ UNCHANGED << files, series_df, datatype_df, occupation_df, merged_df,
                    pivot_df, final_df, export_file >>

\* Lines 69-81.
LoadCurrent ==
    /\ pc = "current"
    /\ LET df == strip_columns(read_csv(files.current))
           cleaned == drop(replace_dash(df),
                           {Name("footnote_codes"), Name("year"), Name("period")})
       IN  IF HasColumn(df, Name("value"))
           THEN current_df' = process_current(df) /\ Goto("merge_current")
           ELSE current_df' = cleaned /\ Raise("KeyError")
    /\ UNCHANGED << files, series_df, datatype_df, occupation_df, merged_df,
                    pivot_df, final_df, export_file >>

\* Line 88.
MergeCurrent ==
    /\ pc = "merge_current"
    /\ IF HasColumn(series_df, Name("series_id"))
          /\ HasColumn(current_df, Name("series_id"))
       THEN /\ merged_df' = merge_left(series_df, current_df, Name("series_id"))
            /\ Goto("merge_datatype")
       ELSE merged_df' = merged_df /\ Raise("KeyError")
    /\ UNCHANGED << files, series_df, datatype_df, occupation_df, current_df,
                    pivot_df, final_df, export_file >>

\* Lines 93-100.
MergeDatatype ==
    /\ pc = "merge_datatype"
    /\ IF HasColumn(merged_df, Name("datatype_code"))
          /\ HasColumn(datatype_df, Name("datatype_code"))
       THEN /\ merged_df' = merge_datatype(merged_df, datatype_df)
            /\ Goto("pivot")
       ELSE merged_df' = merged_df /\ Raise("KeyError")
    /\ UNCHANGED << files, series_df, datatype_df, occupation_df, current_df,
                    pivot_df, final_df, export_file >>

\* Lines 105-111.
Pivot ==
    /\ pc = "pivot"
    /\ IF HasColumns(merged_df, Range(pivot_index)
                                \cup {Name("datatype_name"), Name("value")})
       THEN /\ pivot_df' = pivot_table(merged_df, pivot_index,
                                       Name("datatype_name"), Name("value"))
            /\ Goto("enrich")
       ELSE pivot_df' = pivot_df /\ Raise("KeyError")
    /\ UNCHANGED << files, series_df, datatype_df, occupation_df, current_df,
                    merged_df, final_df, export_file >>

\* Lines 116-121.
Enrich ==
    /\ pc = "enrich"
    /\ IF HasColumns(occupation_df, Range(occupation_columns))
       THEN /\ final_df' = merge_left(pivot_df,
                                      select(occupation_df, occupation_columns),
                                      Name("occupation_code"))
            /\ Goto("export")
       ELSE final_df' = final_df /\ Raise("KeyError")
    /\ UNCHANGED << files, series_df, datatype_df, occupation_df, current_df,
                    merged_df, pivot_df, export_file >>

\* Lines 127-130: final_df.to_csv(export_file, index=False).
Export ==
    /\ pc = "export"
    /\ export_file' = <<final_df>>
    /\ Goto("done")
    /\ UNCHANGED << files, series_df, datatype_df, occupation_df, current_df,
                    merged_df, pivot_df, final_df >>

Next ==
    \/ LoadSeries
    \/ LoadDatatype
    \/ LoadOccupation
    \/ LoadCurrent
    \/ MergeCurrent
    \/ MergeDatatype
    \/ Pivot
    \/ Enrich
    \/ Export

Spec == Init /\ [][Next]_vars

\* ----------------------------------------------------------------------
\* Properties
\* ----------------------------------------------------------------------

occupation_code == Name("occupation_code")
area_code == Name("area_code")
series_id == Name("series_id")
datatype_code == Name("datatype_code")
datatype_name == Name("datatype_name")
value == Name("value")

\* final_df is bound: the enrichment join has run.
Enriched == pc \in {"export", "done"}

\* The run is over.
Ended == pc \in {"done", "aborted"}

\* The columns of the final relation that hold wage values.
LabelColumns(df) ==
    Range(df.columns)
        \ {occupation_code, area_code, Name("occupation_name"),
           Name("occupation_description")}

\* The file has a column of that name, whitespace around its header aside.
FileHas(file, names) ==
    \A n \in names : \E j \in DOMAIN file.header : strip(file.header[j]) = n

\* The file has the column and no two of its lines agree on it.
UniqueKey(file, col) ==
    /\ FileHas(file, {col})
    /\ LET j == CHOOSE j \in DOMAIN file.header : strip(file.header[j]) = col
       IN  \A m, n \in DOMAIN file.rows : file.rows[m][j] = file.rows[n][j] => m = n

\* The source observations, as loaded.
RawCurrent == strip_columns(read_csv(files.current))

\* C1: when datatype_code is a unique key of the data-type table and
\* occupation_code a unique key of the occupation table, no two rows of the
\* final relation have the same (occupation_code, area_code).
C1_FinalKeyUnique ==
    (Enriched /\ UniqueKey(files.datatype, datatype_code)
              /\ UniqueKey(files.occupation, occupation_code))
    => \A i, j \in DOMAIN final_df.rows :
          (/\ final_df.rows[i][occupation_code] = final_df.rows[j][occupation_code]
           /\ final_df.rows[i][area_code] = final_df.rows[j][area_code])
          => i = j

\* A run in which the pivot folded several merged rows of one occupation and
\* area into one of two final rows.
C1_Witness ==
    /\ pc = "done"
    /\ UniqueKey(files.datatype, datatype_code)
    /\ UniqueKey(files.occupation, occupation_code)
    /\ Len(final_df.rows) = 2
    /\ Len(merged_df.rows) > 2
    /\ Cardinality(LabelColumns(final_df)) = 2

\* The labels the filtered data-type table gives a datatype_code; the
\* sentinel when it gives none.
LabelsOf(code) ==
    LET found == { datatype_df.rows[i][datatype_name].s :
                     i \in { n \in DOMAIN datatype_df.rows :
                               datatype_df.rows[n][datatype_code] = code } }
    IN  IF found = {} THEN {Name("MISSING")} ELSE found

\* C2: every non-null wage cell of the final relation is the numeric value of
\* an observation in the source file whose series_id is that of a filtered
\* series row with the cell's occupation_code and area_code and with a
\* datatype_code that maps to the cell's column (to no label, for MISSING).
C2_CellFromSource ==
    Enriched =>
        \A i \in DOMAIN final_df.rows : \A c \in LabelColumns(final_df) :
            ~isna(final_df.rows[i][c]) =>
                \E s \in Range(series_df.rows), o \in Range(RawCurrent.rows) :
                    /\ o[series_id] = s[series_id]
                    /\ s[occupation_code] = final_df.rows[i][occupation_code]
                    /\ s[area_code] = final_df.rows[i][area_code]
                    /\ c \in LabelsOf(s[datatype_code])
                    /\ final_df.rows[i][c] = to_numeric_cell(o[value])

\* A finished run with two final rows holding different numbers.
C2_Witness ==
    /\ pc = "done"
    /\ \E i, j \in DOMAIN final_df.rows : \E c, d \in LabelColumns(final_df) :
          /\ i # j
          /\ ~isna(final_df.rows[i][c])
          /\ ~isna(final_df.rows[j][d])
          /\ final_df.rows[i][c] # final_df.rows[j][d]

AllowedLabels ==
    {Lit(desired_datatypes[i]) : i \in DOMAIN desired_datatypes} \cup {Lit("MISSING")}

\* merged_df carries the labels: the second join and the null policy have run.
Labelled == pc \in {"pivot", "enrich", "export", "done"}

\* The rows of the merged relation, before the second join, whose
\* datatype_code the filtered data-type table does not hold.
Unmatched ==
    { i \in DOMAIN merged_df.rows :
        \A d \in Range(datatype_df.rows) :
            d[datatype_code] # merged_df.rows[i][datatype_code] }

\* C3: after the data-type filter, the second join and the null policy, every
\* row entering the pivot has a non-null label that is one of the five
\* allow-listed strings or "MISSING", so has every label column of the wide
\* and of the final relation, and the rows given "MISSING" are exactly the
\* rows whose datatype_code has no match in the filtered data-type table.
C3_LabelsAllowed ==
    [][ /\ Labelled' =>
            \A m \in Range(merged_df'.rows) :
                ~isna(m[datatype_name]) /\ m[datatype_name] \in AllowedLabels
        /\ pc' \in {"enrich", "export", "done"} =>
            \A c \in LabelColumns(pivot_df') : Str(c) \in AllowedLabels
        /\ Enriched' =>
            \A c \in LabelColumns(final_df') : Str(c) \in AllowedLabels
        /\ (pc = "merge_datatype" /\ pc' = "pivot") =>
            /\ \A i \in Unmatched :
                  \E m \in Range(merged_df'.rows) :
                      /\ m[datatype_name] = Lit("MISSING")
                      /\ m[occupation_code] = merged_df.rows[i][occupation_code]
                      /\ m[area_code] = merged_df.rows[i][area_code]
                      /\ m[value] = merged_df.rows[i][value]
            /\ Cardinality({ j \in DOMAIN merged_df'.rows :
                               merged_df'.rows[j][datatype_name] = Lit("MISSING") })
                 = Cardinality(Unmatched)
      ]_vars

\* A finished run whose final relation has a MISSING column beside an
\* allow-listed one, from a data-type table that also held another label.
C3_Witness ==
    /\ pc = "done"
    /\ Name("MISSING") \in LabelColumns(final_df)
    /\ Cardinality(LabelColumns(final_df)) = 2
    /\ Len(files.datatype.rows) > Len(datatype_df.rows)

\* Every file has the columns the script looks up.
WellFormed ==
    /\ FileHas(files.series, {series_id, Name("areatype_code"), datatype_code,
                              occupation_code, area_code})
    /\ FileHas(files.current, {series_id, value})
    /\ FileHas(files.datatype, {datatype_code, datatype_name})
    /\ FileHas(files.occupation, Range(occupation_columns))

\* The observations of a series in the source file.
ObservationsOf(s) ==
    { i \in DOMAIN RawCurrent.rows : RawCurrent.rows[i][series_id] = s[series_id] }

IsDashText(cell) == cell.k = "str" /\ matches_dash(cell.s)

\* The filtered series rows whose only observation is the dash placeholder.
DashSeries ==
    IF Ended /\ WellFormed
    THEN { s \in Range(series_df.rows) :
             /\ Cardinality(ObservationsOf(s)) = 1
             /\ \A i \in ObservationsOf(s) : IsDashText(RawCurrent.rows[i][value]) }
    ELSE {}

\* The rows of the final relation for the occupation and area of a series.
FinalRowsOf(s) ==
    { i \in DOMAIN final_df.rows :
        /\ final_df.rows[i][occupation_code] = s[occupation_code]
        /\ final_df.rows[i][area_code] = s[area_code] }

\* No other filtered series has the occupation, area and data type of s.
Alone(s) ==
    \A u \in Range(series_df.rows) \ {s} :
        \/ u[occupation_code] # s[occupation_code]
        \/ u[area_code] # s[area_code]
        \/ u[datatype_code] # s[datatype_code]

\* C4: a series whose only observation is the dash placeholder (and which is
\* the only series of its occupation, area and data type) does not make the
\* run fail, and the final relation has a row for its (occupation_code,
\* area_code) whose cell under its label is null.
C4_DashCellIsNull ==
    \A s \in DashSeries :
        Alone(s) =>
            /\ pc # "aborted"
            /\ pc = "done" =>
                  \A l \in LabelsOf(s[datatype_code]) :
                      /\ FinalRowsOf(s) # {}
                      /\ HasColumn(final_df, l)
                      /\ \A i \in FinalRowsOf(s) : isna(final_df.rows[i][l])

\* The one-series scenario: series S1 of occupation O1 and area A1 with the
\* given datatype_code, one observation "45000", the occupation O1 "Nurse".
\* `areatype` says whether the series file has an areatype_code column ("M").
Scenario(code, areatype, datatypes) ==
    /\ files.series =
         IF areatype
         THEN SeriesFile(<< <<"M", "O1", code, "A1">> >>)
         ELSE File(RemoveAt(series_header, 2),
                   << << Lit("S1"), Lit("O1"), Lit(code), Lit("A1"), NA >> >>)
    /\ files.current = CurrentFile(<< <<"S1", <<"4", "5", "0", "0", "0">> >> >>)
    /\ files.datatype = DatatypeFile(datatypes)
    /\ files.occupation = DefaultOccupation

\* The final relation of one row with 45000 under the given label.
ScenarioFinal(label) ==
    DataFrame(<< occupation_code, area_code, Name(label),
                 Name("occupation_name"), Name("occupation_description") >>,
              << [c \in { occupation_code, area_code, Name(label),
                          Name("occupation_name"), Name("occupation_description") } |->
                    CASE c = occupation_code -> Lit("O1")
                      [] c = area_code -> Lit("A1")
                      [] c = Name(label) -> Num(45000)
                      [] c = Name("occupation_name") -> Lit("Nurse")
                      [] c = Name("occupation_description") -> Lit("Cares for patients")] >>)

\* C5 as claimed: the scenario with datatype_code D1 (the series row taken to
\* have areatype_code "M", which the claim leaves out) ends with the one
\* expected row, under "Annual median wage" with the data-type row
\* (D1, "Annual median wage") and under "MISSING" with an empty data-type table.
C5_ScenarioD1 ==
    /\ (Ended /\ Scenario("D1", TRUE, << <<"D1", "Annual median wage">> >>))
          => pc = "done" /\ final_df = ScenarioFinal("Annual median wage")
    /\ (Ended /\ Scenario("D1", TRUE, <<>>))
          => pc = "done" /\ final_df = ScenarioFinal("MISSING")

\* C5, amended: the scenario with areatype_code "M" and a datatype_code on the
\* allow-list of the series filter ("13") ends with the one expected row,
\* under "Annual median wage" with the data-type row (13, "Annual median
\* wage") and under "MISSING" with an empty data-type table.
C5_ScenarioAllowedCode ==
    /\ (Ended /\ Scenario("13", TRUE, << <<"13", "Annual median wage">> >>))
          => pc = "done" /\ final_df = ScenarioFinal("Annual median wage")
    /\ (Ended /\ Scenario("13", TRUE, <<>>))
          => pc = "done" /\ final_df = ScenarioFinal("MISSING")

\* The scenario run with the empty data-type table, finished with the value
\* under MISSING.
C5_Witness ==
    /\ pc = "done"
    /\ Scenario("13", TRUE, <<>>)
    /\ final_df = ScenarioFinal("MISSING")
    /\ export_file = <<final_df>>

\* A file lacks one of the columns the claim lists as required.
MissingRequired ==
    ~ /\ FileHas(files.series, {series_id, datatype_code, occupation_code, area_code})
      /\ FileHas(files.current, {series_id, value})
      /\ FileHas(files.datatype, {datatype_code, datatype_name})
      /\ FileHas(files.occupation, Range(occupation_columns))

MissingValue == ~FileHas(files.current, {value})

\* C6: when a source file lacks a required column the run never reaches the
\* export step, so it can end only by aborting, and no output file is written;
\* when the missing column is the observation file's value column, it aborts
\* before either join has run.
C6_MissingColumnAborts ==
    /\ MissingRequired =>
          /\ pc \notin {"export", "done"}
          /\ error \in {"", "KeyError"}
          /\ error = "KeyError" <=> pc = "aborted"
          /\ export_file = <<>>
    /\ MissingValue =>
          /\ pc \in {"series", "datatype", "occupation", "current", "aborted"}
          /\ merged_df = Unbound

\* A run aborted by the KeyError of the value conversion: the other three
\* files were loaded, no join has run, nothing was written.
C6_Witness ==
    /\ MissingValue
    /\ pc = "aborted"
    /\ error = "KeyError"
    /\ occupation_df # Unbound
    /\ current_df # Unbound
    /\ HasColumn(current_df, series_id)
    /\ export_file = <<>>

\* pivot_df is bound: the pivot has run.
Pivoted == pc \in {"enrich", "export", "done"}

\* merged_df has the four columns the pivot reads.
Pivotable == HasColumns(merged_df, {occupation_code, area_code, datatype_name, value})

\* The rows of the merged relation with the key g = <<occupation_code,
\* area_code, label>>.
MergedRowsOf(g) ==
    { n \in DOMAIN merged_df.rows :
        /\ merged_df.rows[n][occupation_code] = g[1]
        /\ merged_df.rows[n][area_code] = g[2]
        /\ merged_df.rows[n][datatype_name] = g[3] }

\* The keys that several rows of the merged relation share.
SharedKeys ==
    { g \in { << merged_df.rows[n][occupation_code], merged_df.rows[n][area_code],
                 merged_df.rows[n][datatype_name] >> : n \in DOMAIN merged_df.rows } :
        Cardinality(MergedRowsOf(g)) > 1 }

\* The inputs behind the rows of key g, as <<i, j>>: the i-th filtered series
\* row with its j-th observation row, j = 0 for a series with no observation.
SourcesOf(g) ==
    { p \in (DOMAIN series_df.rows) \X (0 .. Len(current_df.rows)) :
        LET s == series_df.rows[p[1]]
        IN  /\ s[occupation_code] = g[1]
            /\ s[area_code] = g[2]
            /\ g[3].s \in LabelsOf(s[datatype_code])
            /\ IF p[2] = 0
               THEN \A o \in Range(current_df.rows) : o[series_id] # s[series_id]
               ELSE current_df.rows[p[2]][series_id] = s[series_id] }

SourceValue(p) == IF p[2] = 0 THEN NA ELSE current_df.rows[p[2]][value]

\* Input order: series order, then observation order within a series.
Earliest(P) ==
    CHOOSE p \in P : \A q \in P :
        p[1] < q[1] \/ (p[1] = q[1] /\ p[2] <= q[2])

\* The cells of the wide relation for key g (none when its row or its column
\* is not there).
WideCells(g) ==
    IF HasColumn(pivot_df, g[3].s)
    THEN { pivot_df.rows[i][g[3].s] :
             i \in { n \in DOMAIN pivot_df.rows :
                       /\ pivot_df.rows[n][occupation_code] = g[1]
                       /\ pivot_df.rows[n][area_code] = g[2] } }
    ELSE {}

\* C8 as claimed: when several rows of the merged relation share one
\* (occupation_code, area_code, label), the cell of the wide relation holds
\* the value of the first of them in input order.
C8_FirstRowWins ==
    Pivoted =>
        \A g \in SharedKeys : \A cell \in WideCells(g) :
            cell = SourceValue(Earliest(SourcesOf(g)))

\* C8, amended: when several rows of the merged relation share one
\* (occupation_code, area_code, label) with no code missing, the pivot does
\* not fail (a run that aborts with such rows aborts after the pivot), and
\* the wide relation has exactly one cell for them, holding the
\* value of the first of them in input order whose value is not null; when
\* all their values are null the wide relation has no value for them.
C8_FirstValueWins ==
    /\ (pc = "aborted" /\ Pivotable /\ SharedKeys # {}) => pivot_df # Unbound
    /\ Pivoted =>
        \A g \in SharedKeys :
            LET valued == { p \in SourcesOf(g) : ~isna(SourceValue(p)) }
            IN  IF isna(g[1]) \/ isna(g[2]) \/ valued = {}
                THEN \A cell \in WideCells(g) : isna(cell)
                ELSE WideCells(g) = { SourceValue(Earliest(valued)) }

\* A finished run where the first of several rows sharing a key has no value
\* and a later one has: the cell holds the later value.
C8_Witness ==
    /\ pc = "done"
    /\ \E g \in SharedKeys :
          /\ isna(SourceValue(Earliest(SourcesOf(g))))
          /\ \E p \in SourcesOf(g) :
                ~isna(SourceValue(p)) /\ WideCells(g) = { SourceValue(p) }

PairOf(r) == << r[occupation_code], r[area_code] >>

\* The row has both codes.
Keyed(r) == ~isna(r[occupation_code]) /\ ~isna(r[area_code])

\* C9: the wide relation has exactly one row for each distinct
\* (occupation_code, area_code) of the merged relation, so for each pair of
\* the filtered series table (also one whose series have no observation), and
\* exactly one column for each distinct label of the merged relation; rows
\* with a missing code are left aside.
C9_RowPerPair ==
    Pivoted =>
        /\ \A i, j \in DOMAIN pivot_df.rows :
              PairOf(pivot_df.rows[i]) = PairOf(pivot_df.rows[j]) => i = j
        /\ { PairOf(pivot_df.rows[i]) : i \in DOMAIN pivot_df.rows }
             = { PairOf(m) : m \in { r \in Range(merged_df.rows) : Keyed(r) } }
        /\ \A s \in Range(series_df.rows) :
              Keyed(s) =>
                \E i \in DOMAIN pivot_df.rows : PairOf(pivot_df.rows[i]) = PairOf(s)
        /\ LabelColumns(pivot_df)
             = { m[datatype_name].s : m \in { r \in Range(merged_df.rows) : Keyed(r) } }

\* How a run on the given files ends: the exception, and the final relation.
Outcome(f) ==
    LET failed == [error |-> "KeyError", final |-> Unbound]
        s == strip_columns(read_csv(f.series))
        d == strip_columns(read_csv(f.datatype))
        o == process_occupation(strip_columns(read_csv(f.occupation)))
        c == strip_columns(read_csv(f.current))
        m1 == merge_left(filter_series(s), process_current(c), series_id)
        m2 == merge_datatype(m1, filter_datatype(d))
        p == pivot_table(m2, pivot_index, datatype_name, value)
    IN  IF ~HasColumns(s, {Name("areatype_code"), datatype_code}) THEN failed
        ELSE IF ~HasColumn(d, datatype_name) THEN failed
        ELSE IF ~HasColumn(c, value) THEN failed
        ELSE IF ~(HasColumn(s, series_id) /\ HasColumn(c, series_id)) THEN failed
        ELSE IF ~(HasColumn(m1, datatype_code) /\ HasColumn(d, datatype_code))
             THEN failed
        ELSE IF ~HasColumns(m2, Range(pivot_index) \cup {datatype_name, value})
             THEN failed
        ELSE IF ~HasColumns(o, Range(occupation_columns)) THEN failed
        ELSE [error |-> "",
              final |-> merge_left(p, select(o, occupation_columns), occupation_code)]

\* The header word in lower case.
CaseFold(word) ==
    CASE word = "Series_ID" -> "series_id"
      [] word = "AreaType_Code" -> "areatype_code"
      [] word = "Occupation_Code" -> "occupation_code"
      [] word = "Datatype_Code" -> "datatype_code"
      [] word = "Area_Code" -> "area_code"
      [] word = "VALUE" -> "value"
      [] word = "Datatype_Name" -> "datatype_name"
      [] word = "Occupation_Name" -> "occupation_name"
      [] word = "Occupation_Description" -> "occupation_description"
      [] OTHER -> word

\* The files with every header trimmed and put in lower case.
TrimmedAndFolded(f) ==
    [n \in DOMAIN f |->
        File([j \in DOMAIN f[n].header |->
                 [i \in DOMAIN strip(f[n].header[j]) |->
                     CaseFold(strip(f[n].header[j])[i])]],
             f[n].rows)]

\* C10: a run on files whose headers carry surrounding whitespace
\* or another letter case ends as the run on the same files with the headers
\* trimmed and in lower case.
C10_TrimmedAndCaseFolded ==
    (Ended /\ files # TrimmedAndFolded(files))
        => [error |-> error, final |-> final_df] = Outcome(TrimmedAndFolded(files))

============================================================================
